---------------------------- MODULE Spec2Model ----------------------------
(***************************************************************************)
(* State-machine model of VulkanSurface                                    *)
(* (src/internal/renderers/skia/vulkan_surface.rs): construction, resize   *)
(* notification, the handle accessors and the per-frame render protocol,   *)
(* which is split into one action per step of render so that the order of  *)
(* the steps and the intermediate states are visible.                      *)
(*                                                                         *)
(* The Vulkan driver, the memory allocator and Skia are the environment:   *)
(* every fallible call made by the code (image / view creation, acquire,   *)
(* wrapping the render target, queuing the present) takes each of its      *)
(* outcomes nondeterministically.                                          *)
(***************************************************************************)
EXTENDS Integers, Sequences, FiniteSets, TLC

\* const FRAMES_IN_FLIGHT: u8 = 3;  (must be nonzero)
FRAMES_IN_FLIGHT == 3

\* Bounds of the model.
MaxWidth == 2        \* window widths are 1..MaxWidth
MaxHeight == 2       \* window heights are 1..MaxHeight
MaxRenders == 3      \* render calls per behaviour
MaxNotify == 2       \* resize notifications between two render calls
MaxImageIndex == 2   \* acquire_next_image returns an index in 0..MaxImageIndex
MaxDevices == 2      \* physical devices enumerated by the instance
MaxQueueFamilies == 2 \* queue families of one physical device
MaxHandlers == 2     \* distinct closures passed to Signal::set_handler
MaxArgs == 2         \* distinct arguments passed to Signal::emit
MaxEmits == 3        \* calls of Signal::emit
MaxSets == 2         \* calls of Signal::set_handler

\* Option<T>: None is the empty sequence, Some(x) the sequence holding x.
None == <<>>
Some(x) == <<x>>
\* the empty previous_frame_end slot (its futures are "now" and "frame")
NoFuture == "None"
Format_B8G8R8A8_UNORM == "B8G8R8A8_UNORM"

\* PhysicalWindowSize { width, height } as <<width, height>>
Sizes == {<<w, h>> : w \in 1..MaxWidth, h \in 1..MaxHeight}

MsgFrameIndex == "Vulkan frame index requested before first render"
MsgUnwrapNone == "called Option::unwrap on a None value"
MsgIndexOutOfBounds == "index out of bounds"
MsgFormatAssert == "assertion failed: format == B8G8R8A8_UNORM"

VARIABLES
    \* fields of VulkanSurface
    resize_event,          \* Cell<Option<PhysicalWindowSize>>
    images,                \* RefCell<Vec<Arc<AttachmentImage>>>
    image_views,           \* RefCell<Vec<Arc<ImageView>>>
    frame_index,           \* RefCell<Option<usize>>
    recreate_swapchain,    \* Cell<bool>
    previous_frame_end,    \* RefCell<Option<Box<dyn GpuFuture>>>
    \* position in, and locals of, the running render call
    pc,
    l_frame_index,         \* let frame_index
    l_resize,              \* let resize
    new_images,            \* let mut new_images
    new_image_views,       \* let mut new_image_views
    recreate_ok,           \* result of recreate_size_dependent_resources
    image_index,           \* index returned by acquire_next_image
    suboptimal,            \* flag returned by acquire_next_image
    render_target,         \* image wrapped as the backend render target
    l_pre_present,         \* whether pre_present_callback held a callback
    present_info,          \* SwapchainPresentInfo: the image index handed to the present
    \* what the caller sees
    result,                \* return value of the last render / resize_event
    access_result,         \* value returned by the last accessor call
    panic_msg,             \* message of the panic that ended the program
    \* history of the run
    renders,               \* render calls begun
    completed_frames,      \* render calls that ran the whole protocol and returned Ok
    outcome,               \* path by which the last returned render call ended
    notify_count,          \* resize notifications since the last render call returned
    last_notified,         \* size given by the most recent of them
    consumed,              \* size of the last resize whose recreation succeeded
    constructed_filled,    \* whether previous_frame_end was filled at construction
    trace                  \* callbacks and GPU operations of the current / last render

\* Device selection in VulkanSurface::new
VARIABLES
    devices,               \* instance.enumerate_physical_devices()
    selected               \* (physical_device, queue_family_index) or the error

select_vars == <<devices, selected>>

\* corelib/signals.rs: one Signal<Arg>
VARIABLES
    sig_handler,           \* Signal::handler, the content of the Cell
    sig_stack,             \* the emit calls whose handler is running, innermost last
    sig_panic,             \* the assertion of emit has failed
    sig_log,               \* history: the (handler, argument) invocations, in order
    sig_emits,             \* history: calls of emit
    sig_sets,              \* history: calls of set_handler
    sig_last_set,          \* history: the handler of the latest set_handler
    sig_last_emit          \* history: the argument of the latest emit

signal_vars ==
    <<sig_handler, sig_stack, sig_panic, sig_log, sig_emits, sig_sets,
      sig_last_set, sig_last_emit>>

surface_vars ==
    <<resize_event, images, image_views, frame_index, recreate_swapchain,
      previous_frame_end, pc, l_frame_index, l_resize, new_images,
      new_image_views, recreate_ok, image_index, suboptimal, render_target,
      l_pre_present, present_info, result, access_result, panic_msg, renders,
      completed_frames, outcome, notify_count, last_notified, consumed,
      constructed_filled, trace>>

fields == <<resize_event, images, image_views, frame_index, recreate_swapchain,
            previous_frame_end>>
locals == <<l_frame_index, l_resize, new_images, new_image_views, recreate_ok,
            image_index, suboptimal, render_target, l_pre_present, present_info>>
history == <<renders, completed_frames, outcome, notify_count, last_notified,
             consumed, constructed_filled, trace>>

--------------------------------------------------------------------------
(* Frame resources *)

\* Variant of NewImage: the extent is passed as [size.height, size.width].
NewImageTransposed(size, gen, i) ==
    [dim |-> <<size[2], size[1]>>, format |-> Format_B8G8R8A8_UNORM, id |-> <<gen, i>>]

\* AttachmentImage::new(memory_allocator, [size.width, size.height], B8G8R8A8_UNORM).
\* id names the allocation: <<render call that made it, position in the loop>>.
NewImage(size, gen, i) ==
    [dim |-> <<size[1], size[2]>>, format |-> Format_B8G8R8A8_UNORM, id |-> <<gen, i>>]

\* ImageView::new_default(image.clone())
NewImageView(image) ==
    [image |-> image.id, format |-> image.format]

\* The loop of recreate_size_dependent_resources from iteration i on.
\* failAt = 2k-1: creating the k-th image fails; failAt = 2k: creating the k-th
\* view fails; failAt = 0: nothing fails.  The `?` returns with whatever has
\* been pushed into the output containers so far.
RECURSIVE RecreateLoop(_, _, _, _, _, _)
RecreateLoop(i, size, gen, failAt, output_images, output_image_views) ==
    IF i > FRAMES_IN_FLIGHT
    THEN [ok |-> TRUE, images |-> output_images, views |-> output_image_views]
    ELSE IF failAt = 2 * i - 1 \/ failAt = 2 * i
    THEN [ok |-> FALSE, images |-> output_images, views |-> output_image_views]
    ELSE LET image == NewImage(size, gen, i)
             image_view == NewImageView(image)
         IN  RecreateLoop(i + 1, size, gen, failAt,
                          Append(output_images, image),
                          Append(output_image_views, image_view))

recreate_size_dependent_resources(size, gen, failAt, output_images, output_image_views) ==
    RecreateLoop(1, size, gen, failAt, output_images, output_image_views)

FailPoints == 0..(2 * FRAMES_IN_FLIGHT)

--------------------------------------------------------------------------
(* Construction *)

\* from_resources: the images and views are created at `size` into empty
\* containers (a failure aborts construction: no surface), resize_event is
\* Some(size) and frame_index is None.  The constructor under src/ does not
\* initialise recreate_swapchain and previous_frame_end, so every value of
\* their types that needs no earlier frame is taken.
Init ==
    \E size \in Sizes :
        LET r == recreate_size_dependent_resources(size, 0, 0, <<>>, <<>>)
        IN  /\ resize_event = Some(size)
            /\ images = r.images
            /\ image_views = r.views
            /\ frame_index = None
            /\ recreate_swapchain \in BOOLEAN
            /\ previous_frame_end \in {NoFuture, "now"}
            /\ pc = "idle"
            /\ l_frame_index = 0
            /\ l_resize = None
            /\ new_images = <<>>
            /\ new_image_views = <<>>
            /\ recreate_ok = TRUE
            /\ image_index = 0
            /\ suboptimal = FALSE
            /\ render_target = None
            /\ l_pre_present = FALSE
            /\ present_info = None
            /\ result = "none"
            /\ access_result = [kind |-> "none", value |-> 0]
            /\ panic_msg = "none"
            /\ renders = 0
            /\ completed_frames = 0
            /\ outcome = "none"
            /\ notify_count = 0
            /\ last_notified = None
            /\ consumed = size
            /\ constructed_filled = (previous_frame_end # NoFuture)
            /\ trace = <<>>

--------------------------------------------------------------------------
(* Helpers shared by the steps of render *)

\* panic!: the program stops here.
Panic(msg) ==
    /\ pc' = "panicked"
    /\ panic_msg' = msg
    /\ UNCHANGED <<fields, locals, result, history>>

\* render returns r by the path `how`; its locals are dropped.  The caller
\* states what happens to the fields and to the trace.
Return(r, how) ==
    /\ pc' = "idle"
    /\ result' = r
    /\ outcome' = how
    /\ completed_frames' = IF how = "present_ok" THEN completed_frames + 1
                           ELSE completed_frames
    /\ notify_count' = 0
    /\ last_notified' = None
    /\ l_frame_index' = 0
    /\ l_resize' = None
    /\ new_images' = <<>>
    /\ new_image_views' = <<>>
    /\ recreate_ok' = TRUE
    /\ image_index' = 0
    /\ suboptimal' = FALSE
    /\ render_target' = None
    /\ l_pre_present' = FALSE
    /\ present_info' = None
    /\ UNCHANGED <<access_result, panic_msg, renders, consumed, constructed_filled>>

--------------------------------------------------------------------------
(* resize_event *)

\* Variant of resize_event_set: a size already pending is kept.
resize_event_set_keep_first(size) ==
    /\ resize_event' = IF resize_event = None THEN Some(size) ELSE resize_event
    /\ result' = "Ok"

\* self.resize_event.set(_size.into()); Ok(())
resize_event_set(size) ==
    /\ resize_event' = Some(size)
    /\ result' = "Ok"

\* Variant of ResizeEvent: the notification also requests a swapchain recreation.
ResizeEventRequestsRecreate(size) ==
    /\ pc = "idle"
    /\ notify_count < MaxNotify
    /\ resize_event_set(size)
    /\ recreate_swapchain' = TRUE
    /\ notify_count' = notify_count + 1
    /\ last_notified' = Some(size)
    /\ UNCHANGED <<images, image_views, frame_index, previous_frame_end, pc,
                   locals, access_result, panic_msg, renders, completed_frames,
                   outcome, consumed, constructed_filled, trace>>

ResizeEvent(size) ==
    /\ pc = "idle"
    /\ notify_count < MaxNotify
    /\ resize_event_set(size)
    /\ notify_count' = notify_count + 1
    /\ last_notified' = Some(size)
    /\ UNCHANGED <<images, image_views, frame_index, recreate_swapchain,
                   previous_frame_end, pc, locals, access_result, panic_msg,
                   renders, completed_frames, outcome, consumed,
                   constructed_filled, trace>>

--------------------------------------------------------------------------
(* Accessors *)

\* Variant of current_vulkan_frame_index: None defaults to 0, as it does in render.
current_vulkan_frame_index_default(fi) ==
    IF fi = None THEN [kind |-> "index", value |-> 0]
    ELSE [kind |-> "index", value |-> fi[1]]

\* match self.frame_index.clone().take() { Some(idx) => idx, None => panic!(..) }
current_vulkan_frame_index(fi) ==
    IF fi = None THEN [kind |-> "panic", value |-> 0]
    ELSE [kind |-> "index", value |-> fi[1]]

CurrentVulkanFrameIndex ==
    /\ pc = "idle"
    /\ LET r == current_vulkan_frame_index(frame_index)
       IN  /\ access_result' = r
           /\ IF r.kind = "panic"
              THEN Panic(MsgFrameIndex)
              ELSE UNCHANGED <<fields, pc, locals, result, panic_msg, history>>

\* self.images.clone().take()[self.current_vulkan_frame_index()]...handle()
CurrentRawOffscreenVulkanImageHandle ==
    /\ pc = "idle"
    /\ LET r == current_vulkan_frame_index(frame_index)
       IN  IF r.kind = "panic"
           THEN /\ access_result' = [kind |-> "panic_handle", value |-> 0]
                /\ Panic(MsgFrameIndex)
           ELSE IF r.value >= Len(images)
           THEN /\ access_result' = [kind |-> "panic_handle", value |-> 0]
                /\ Panic(MsgIndexOutOfBounds)
           ELSE /\ access_result' = [kind |-> "handle", value |-> r.value]
                /\ UNCHANGED <<fields, pc, locals, result, panic_msg, history>>

--------------------------------------------------------------------------
(* render, step by step *)

\* let frame_index = match self.frame_index.clone().take() { Some(idx) => idx, None => 0 };
\* the clone is taken from, the field itself is left as it is.
render_frame_index(fi) ==
    IF fi = None THEN 0 ELSE fi[1]

\* lines 249-258: borrow the context, read the frame index, take the resize.
RenderBegin ==
    /\ pc = "idle"
    /\ renders < MaxRenders
    /\ renders' = renders + 1
    /\ l_frame_index' = render_frame_index(frame_index)
    /\ l_resize' = resize_event
    /\ resize_event' = None
    /\ trace' = <<>>
    /\ result' = "pending"
    /\ pc' = IF resize_event # None THEN "recreate" ELSE "acquire"
    /\ UNCHANGED <<images, image_views, frame_index, recreate_swapchain,
                   previous_frame_end, new_images, new_image_views, recreate_ok,
                   image_index, suboptimal, render_target, l_pre_present,
                   present_info, access_result, panic_msg, completed_frames,
                   outcome, notify_count, last_notified, consumed,
                   constructed_filled>>

\* lines 259-269: the call of recreate_size_dependent_resources on two fresh
\* containers.
RenderRecreate ==
    /\ pc = "recreate"
    /\ \E failAt \in FailPoints :
         LET r == recreate_size_dependent_resources(l_resize[1], renders, failAt,
                                                    <<>>, <<>>)
         IN  /\ new_images' = r.images
             /\ new_image_views' = r.views
             /\ recreate_ok' = r.ok
             /\ consumed' = IF r.ok THEN l_resize[1] ELSE consumed
    /\ pc' = "recreated"
    /\ UNCHANGED <<fields, l_frame_index, l_resize, image_index, suboptimal,
                   render_target, l_pre_present, present_info, result,
                   access_result, panic_msg, renders, completed_frames, outcome,
                   notify_count, last_notified, constructed_filled, trace>>

\* Variant of RenderRecreateFailed: what was created before the error is
\* stored as the active set.
RenderRecreateFailedStoresPartial ==
    /\ pc = "recreated"
    /\ ~recreate_ok
    /\ Return("Err", "recreate_err")
    /\ images' = new_images
    /\ image_views' = new_image_views
    /\ UNCHANGED <<resize_event, frame_index, recreate_swapchain,
                   previous_frame_end, trace>>

\* line 269: the `?` on an Err.
RenderRecreateFailed ==
    /\ pc = "recreated"
    /\ ~recreate_ok
    /\ Return("Err", "recreate_err")
    /\ UNCHANGED <<fields, trace>>

\* Variant of RenderSwapImages: the new images are not stored.
RenderSwapImagesMissing ==
    /\ pc = "recreated"
    /\ recreate_ok
    /\ pc' = "swap_views"
    /\ UNCHANGED <<fields, locals, result, access_result, panic_msg, history>>

\* line 271: *self.images.borrow_mut() = new_images;
RenderSwapImages ==
    /\ pc = "recreated"
    /\ recreate_ok
    /\ images' = new_images
    /\ pc' = "swap_views"
    /\ UNCHANGED <<resize_event, image_views, frame_index, recreate_swapchain,
                   previous_frame_end, locals, result, access_result, panic_msg,
                   history>>

\* Variant of RenderSwapViews: the views are not replaced.
RenderSwapViewsMissing ==
    /\ pc = "swap_views"
    /\ pc' = "acquire"
    /\ UNCHANGED <<fields, locals, result, access_result, panic_msg, history>>

\* line 272: *self.image_views.borrow_mut() = new_image_views;
RenderSwapViews ==
    /\ pc = "swap_views"
    /\ image_views' = new_image_views
    /\ pc' = "acquire"
    /\ UNCHANGED <<resize_event, images, frame_index, recreate_swapchain,
                   previous_frame_end, locals, result, access_result, panic_msg,
                   history>>

\* Variant of suboptimal_flag: a suboptimal acquire leaves the flag alone.
suboptimal_flag_ignored(is_suboptimal, flag) == flag

\* lines 289-291: if suboptimal { self.recreate_swapchain.set(true); }
suboptimal_flag(is_suboptimal, flag) ==
    IF is_suboptimal THEN TRUE ELSE flag

\* The outcomes of vulkano::swapchain::acquire_next_image(swapchain, None).
AcquireResults ==
    [kind : {"Ok"}, index : 0..MaxImageIndex, suboptimal : BOOLEAN]
    \cup [kind : {"OutOfDate", "Error"}, index : {0}, suboptimal : {FALSE}]

\* lines 277-291: acquire the next image; out-of-date sets the flag and returns
\* Ok, any other error returns Err, suboptimal sets the flag and goes on.
RenderAcquire ==
    /\ pc = "acquire"
    /\ \E r \in AcquireResults :
         IF r.kind = "Ok"
         THEN /\ image_index' = r.index
              /\ suboptimal' = r.suboptimal
              /\ recreate_swapchain' = suboptimal_flag(r.suboptimal,
                                                       recreate_swapchain)
              /\ pc' = "wrap"
              /\ UNCHANGED <<resize_event, images, image_views, frame_index,
                             previous_frame_end, l_frame_index, l_resize,
                             new_images, new_image_views, recreate_ok,
                             render_target, l_pre_present, present_info,
                             result, access_result, panic_msg, history>>
         ELSE IF r.kind = "OutOfDate"
         THEN /\ recreate_swapchain' = TRUE
              /\ Return("Ok", "acquire_out_of_date")
              /\ UNCHANGED <<resize_event, images, image_views, frame_index,
                             previous_frame_end, trace>>
         ELSE /\ Return("Err", "acquire_err")
              /\ UNCHANGED <<fields, trace>>

\* lines 293-330: index the image and the view at frame_index, check the
\* format, wrap the image as a Skia surface (which may fail).
RenderWrap ==
    /\ pc = "wrap"
    /\ IF l_frame_index >= Len(images) \/ l_frame_index >= Len(image_views)
       THEN Panic(MsgIndexOutOfBounds) /\ UNCHANGED access_result
       ELSE IF image_views[l_frame_index + 1].format # Format_B8G8R8A8_UNORM
       THEN Panic(MsgFormatAssert) /\ UNCHANGED access_result
       ELSE \E wrapped \in BOOLEAN :
              IF wrapped
              THEN /\ render_target' = Some(image_views[l_frame_index + 1].image)
                   /\ pc' = "draw"
                   /\ UNCHANGED <<fields, l_frame_index, l_resize, new_images,
                                  new_image_views, recreate_ok, image_index,
                                  suboptimal, l_pre_present, present_info,
                                  result, access_result, panic_msg, history>>
              ELSE /\ Return("Err", "wrap_err")
                   /\ UNCHANGED <<fields, trace>>

\* Variant of RenderDraw: the callback is invoked twice.
RenderDrawTwice ==
    /\ pc = "draw"
    /\ trace' = Append(Append(trace, "draw"), "draw")
    /\ pc' = "submit"
    /\ UNCHANGED <<fields, locals, result, access_result, panic_msg, renders,
                   completed_frames, outcome, notify_count, last_notified,
                   consumed, constructed_filled>>

\* lines 332-334: callback(skia_surface.canvas(), Some(gr_context)); drop(skia_surface);
RenderDraw ==
    /\ pc = "draw"
    /\ trace' = Append(trace, "draw")
    /\ pc' = "submit"
    /\ UNCHANGED <<fields, locals, result, access_result, panic_msg, renders,
                   completed_frames, outcome, notify_count, last_notified,
                   consumed, constructed_filled>>

\* line 340: gr_context.submit(true);
RenderSubmit ==
    /\ pc = "submit"
    /\ trace' = Append(trace, "submit")
    /\ pc' = "pre_present"
    /\ UNCHANGED <<fields, locals, result, access_result, panic_msg, renders,
                   completed_frames, outcome, notify_count, last_notified,
                   consumed, constructed_filled>>

\* Variant of RenderPrePresent: a registered callback is not invoked.
RenderPrePresentSkipped ==
    /\ pc = "pre_present"
    /\ \E registered \in BOOLEAN : l_pre_present' = registered
    /\ pc' = "take"
    /\ UNCHANGED <<fields, l_frame_index, l_resize, new_images, new_image_views,
                   recreate_ok, image_index, suboptimal, render_target,
                   present_info, result, access_result, panic_msg, history>>

\* lines 342-344: the pre-present callback, when the caller registered one.
RenderPrePresent ==
    /\ pc = "pre_present"
    /\ \E registered \in BOOLEAN :
         /\ l_pre_present' = registered
         /\ trace' = IF registered THEN Append(trace, "pre_present") ELSE trace
    /\ pc' = "take"
    /\ UNCHANGED <<fields, l_frame_index, l_resize, new_images, new_image_views,
                   recreate_ok, image_index, suboptimal, render_target,
                   present_info, result, access_result, panic_msg, renders,
                   completed_frames, outcome, notify_count, last_notified,
                   consumed, constructed_filled>>

\* lines 346-355: self.previous_frame_end.borrow_mut().take().unwrap()
\* .join(acquire_future).then_swapchain_present(queue,
\* SwapchainPresentInfo::swapchain_image_index(swapchain, image_index))
RenderTake ==
    /\ pc = "take"
    /\ IF previous_frame_end = NoFuture
       THEN Panic(MsgUnwrapNone) /\ UNCHANGED access_result
       ELSE /\ previous_frame_end' = NoFuture
            /\ present_info' = Some(image_index)
            /\ pc' = "present"
            /\ UNCHANGED <<resize_event, images, image_views, frame_index,
                           recreate_swapchain, l_frame_index, l_resize,
                           new_images, new_image_views, recreate_ok,
                           image_index, suboptimal, render_target,
                           l_pre_present, result, access_result, panic_msg,
                           history>>

\* The outcomes of .join(..).then_swapchain_present(..).then_signal_fence_and_flush()
PresentResults == {"Ok", "OutOfDate", "Error"}

\* Variant of present_ok: the new future is not stored.
present_ok_no_store ==
    /\ UNCHANGED <<previous_frame_end, recreate_swapchain>>
    /\ Return("Ok", "present_ok")

\* lines 358-361: Ok(future) => store it.
present_ok ==
    /\ previous_frame_end' = "frame"
    /\ UNCHANGED recreate_swapchain
    /\ Return("Ok", "present_ok")

\* Variant of present_out_of_date: the recreate flag is not set.
present_out_of_date_no_flag ==
    /\ UNCHANGED recreate_swapchain
    /\ previous_frame_end' = "now"
    /\ Return("Ok", "present_out_of_date")

\* lines 362-365 and 372: Err(OutOfDate) => set the flag, store sync::now, Ok(())
present_out_of_date ==
    /\ recreate_swapchain' = TRUE
    /\ previous_frame_end' = "now"
    /\ Return("Ok", "present_out_of_date")

\* Variant of present_error: the slot is left empty.
present_error_no_refill ==
    /\ UNCHANGED <<previous_frame_end, recreate_swapchain>>
    /\ Return("Err", "present_err")

\* lines 366-369: Err(e) => store sync::now, return Err
present_error ==
    /\ previous_frame_end' = "now"
    /\ UNCHANGED recreate_swapchain
    /\ Return("Err", "present_err")

\* lines 356-372: .then_signal_fence_and_flush() queues the present; match on
\* the result.
RenderPresent ==
    /\ pc = "present"
    /\ trace' = Append(trace, "present")
    /\ \E r \in PresentResults :
         IF r = "Ok" THEN present_ok
         ELSE IF r = "OutOfDate" THEN present_out_of_date
         ELSE present_error
    /\ UNCHANGED <<resize_event, images, image_views, frame_index>>

--------------------------------------------------------------------------
SurfaceNext ==
    \/ \E size \in Sizes : ResizeEvent(size)
    \/ CurrentVulkanFrameIndex
    \/ CurrentRawOffscreenVulkanImageHandle
    \/ RenderBegin
    \/ RenderRecreate
    \/ RenderRecreateFailed
    \/ RenderSwapImages
    \/ RenderSwapViews
    \/ RenderAcquire
    \/ RenderWrap
    \/ RenderDraw
    \/ RenderSubmit
    \/ RenderPrePresent
    \/ RenderTake
    \/ RenderPresent

--------------------------------------------------------------------------
(* Device selection: VulkanSurface::new, lines 206-226 *)

\* PhysicalDeviceType; "Unknown" stands for every type the match does not name.
DeviceTypes == {"DiscreteGpu", "IntegratedGpu", "VirtualGpu", "Cpu", "Other", "Unknown"}

\* queue_family_properties(): per family, whether queue_flags has GRAPHICS.
QueueFamilyLists ==
    UNION {[1..n -> BOOLEAN] : n \in 0..MaxQueueFamilies}

PhysicalDevices == [device_type : DeviceTypes, queue_families : QueueFamilyLists]

DeviceLists == UNION {[1..n -> PhysicalDevices] : n \in 0..MaxDevices}

\* Variant of DeviceRank: integrated devices are ranked before discrete ones.
DeviceRankIntegratedFirst(device_type) ==
    CASE device_type = "DiscreteGpu" -> 1
      [] device_type = "IntegratedGpu" -> 0
      [] device_type = "VirtualGpu" -> 2
      [] device_type = "Cpu" -> 3
      [] device_type = "Other" -> 4
      [] OTHER -> 5

\* lines 218-225: the key of min_by_key.
DeviceRank(device_type) ==
    CASE device_type = "DiscreteGpu" -> 0
      [] device_type = "IntegratedGpu" -> 1
      [] device_type = "VirtualGpu" -> 2
      [] device_type = "Cpu" -> 3
      [] device_type = "Other" -> 4
      [] OTHER -> 5

\* lines 212-215: .iter().enumerate().position(|(_, q)| q.queue_flags.intersects(GRAPHICS)),
\* the 0-based index of the first graphics family.
RECURSIVE PositionFrom(_, _)
PositionFrom(queue_families, i) ==
    IF i > Len(queue_families) THEN None
    ELSE IF queue_families[i] THEN Some(i - 1)
    ELSE PositionFrom(queue_families, i + 1)

GraphicsQueuePosition(queue_families) == PositionFrom(queue_families, 1)

\* lines 210-217: the filter on the (empty) required extensions keeps every
\* device; filter_map keeps, in order, the devices that have a graphics family,
\* each with the index of its first one.  p is the device's place in the
\* enumeration.
RECURSIVE FilterMapFrom(_, _)
FilterMapFrom(devs, p) ==
    IF p > Len(devs) THEN <<>>
    ELSE LET pos == GraphicsQueuePosition(devs[p].queue_families)
         IN  IF pos = None THEN FilterMapFrom(devs, p + 1)
             ELSE <<[device |-> p, queue_family_index |-> pos[1]]>>
                  \o FilterMapFrom(devs, p + 1)

\* Iterator::min_by_key: the first element of the least key.
RECURSIVE MinByKeyFrom(_, _, _, _)
MinByKeyFrom(devs, candidates, k, best) ==
    IF k > Len(candidates) THEN best
    ELSE LET x == candidates[k]
         IN  IF DeviceRank(devs[x.device].device_type)
                  < DeviceRank(devs[best.device].device_type)
             THEN MinByKeyFrom(devs, candidates, k + 1, x)
             ELSE MinByKeyFrom(devs, candidates, k + 1, best)

\* lines 207-226: the selected (physical_device, queue_family_index), or the
\* error "Vulkan: Failed to find suitable physical device".
select_physical_device(devs) ==
    LET candidates == FilterMapFrom(devs, 1)
    IN  IF candidates = <<>>
        THEN [kind |-> "Err", device |-> 0, queue_family_index |-> 0]
        ELSE LET best == MinByKeyFrom(devs, candidates, 2, candidates[1])
             IN  [kind |-> "Ok", device |-> best.device,
                  queue_family_index |-> best.queue_family_index]

NotSelected == [kind |-> "pending", device |-> 0, queue_family_index |-> 0]

\* The selection has not been asked for.
NoSelection ==
    /\ devices = <<>>
    /\ selected = NotSelected

\* No surface exists (yet).
NoSurface ==
    /\ resize_event = None
    /\ images = <<>>
    /\ image_views = <<>>
    /\ frame_index = None
    /\ recreate_swapchain = FALSE
    /\ previous_frame_end = NoFuture
    /\ pc = "unconstructed"
    /\ l_frame_index = 0
    /\ l_resize = None
    /\ new_images = <<>>
    /\ new_image_views = <<>>
    /\ recreate_ok = TRUE
    /\ image_index = 0
    /\ suboptimal = FALSE
    /\ render_target = None
    /\ l_pre_present = FALSE
    /\ present_info = None
    /\ result = "none"
    /\ access_result = [kind |-> "none", value |-> 0]
    /\ panic_msg = "none"
    /\ renders = 0
    /\ completed_frames = 0
    /\ outcome = "none"
    /\ notify_count = 0
    /\ last_notified = None
    /\ consumed = <<0, 0>>
    /\ constructed_filled = FALSE
    /\ trace = <<>>

\* new() up to the call of from_resources: enumerate and select.
SelectDevice ==
    /\ selected.kind = "pending"
    /\ selected' = select_physical_device(devices)
    /\ UNCHANGED devices

--------------------------------------------------------------------------
(* Signal: corelib/signals.rs, lines 14-37 *)

Handlers == 1..MaxHandlers

Args == 1..MaxArgs

\* #[derive(Default)]: the Cell holds None; nothing has been called.
SignalDefault ==
    /\ sig_handler = None
    /\ sig_stack = <<>>
    /\ sig_panic = FALSE
    /\ sig_log = <<>>
    /\ sig_emits = 0
    /\ sig_sets = 0
    /\ sig_last_set = None
    /\ sig_last_emit = None

\* Mark the innermost running handler as having called set_handler.
MarkSetCalled(stack) ==
    IF stack = <<>> THEN stack
    ELSE [stack EXCEPT ![Len(stack)].set_called = TRUE]

\* lines 34-36: set_handler(f), called by the owner of the signal or by a
\* handler that is running.
SigSetHandler(f) ==
    /\ ~sig_panic
    /\ sig_sets < MaxSets
    /\ sig_handler' = Some(f)
    /\ sig_stack' = MarkSetCalled(sig_stack)
    /\ sig_sets' = sig_sets + 1
    /\ sig_last_set' = Some(f)
    /\ UNCHANGED <<sig_panic, sig_log, sig_emits, sig_last_emit>>

\* lines 23-25: emit(a) up to the call h(a); without a handler the whole call.
\* The handler runs until SigHandlerReturn; meanwhile it may call emit and
\* set_handler itself.
SigEmit(a) ==
    /\ ~sig_panic
    /\ sig_emits < MaxEmits
    /\ sig_emits' = sig_emits + 1
    /\ sig_last_emit' = Some(a)
    /\ IF sig_handler # None
       THEN /\ sig_handler' = None
            /\ sig_stack' = Append(sig_stack,
                    [h |-> sig_handler[1], a |-> a, set_called |-> FALSE])
            /\ sig_log' = Append(sig_log, <<sig_handler[1], a>>)
       ELSE UNCHANGED <<sig_handler, sig_stack, sig_log>>
    /\ UNCHANGED <<sig_panic, sig_sets, sig_last_set>>

\* Variant of the assertion that never fails.
assertion_never_fails(handler) == FALSE

\* line 26: assert!(self.handler.take().is_none(), ...) fails.
handler_set_while_emitted(handler) == handler # None

\* Variant of emit_restore: the handler is not put back.
emit_restore_nothing(h) == None

\* line 27: self.handler.set(Some(h)).
emit_restore(h) == Some(h)

\* lines 25-28: the innermost handler returns; emit asserts that the Cell is
\* still empty (taking its content) and puts the handler back.
SigHandlerReturn ==
    /\ ~sig_panic
    /\ sig_stack # <<>>
    /\ IF handler_set_while_emitted(sig_handler)
       THEN /\ sig_panic' = TRUE
            /\ sig_handler' = None
            /\ UNCHANGED sig_stack
       ELSE /\ sig_handler' = emit_restore(sig_stack[Len(sig_stack)].h)
            /\ sig_stack' = SubSeq(sig_stack, 1, Len(sig_stack) - 1)
            /\ UNCHANGED sig_panic
    /\ UNCHANGED <<sig_log, sig_emits, sig_sets, sig_last_set, sig_last_emit>>

--------------------------------------------------------------------------
vars == <<surface_vars, select_vars, signal_vars>>

\* The surface: constructed by from_resources, then driven by its caller.
SurfaceInit == Init /\ NoSelection /\ SignalDefault

Next == SurfaceNext /\ UNCHANGED <<select_vars, signal_vars>>

Spec == SurfaceInit /\ [][Next]_vars

\* Device selection on any enumeration of at most MaxDevices devices.
SelectInit ==
    /\ devices \in DeviceLists
    /\ selected = NotSelected
    /\ NoSurface
    /\ SignalDefault

SelectNext == SelectDevice /\ UNCHANGED <<surface_vars, signal_vars>>

SpecSelect == SelectInit /\ [][SelectNext]_vars

\* One signal, its owner and its handlers.
SignalInit == SignalDefault /\ NoSurface /\ NoSelection

SignalNext ==
    /\ \/ \E f \in Handlers : SigSetHandler(f)
       \/ \E a \in Args : SigEmit(a)
       \/ SigHandlerReturn
    /\ UNCHANGED <<surface_vars, select_vars>>

SpecSignal == SignalInit /\ [][SignalNext]_vars

--------------------------------------------------------------------------
(* Properties *)

\* The steps of render that work on the active set.
ProtocolSteps == {"acquire", "wrap", "draw", "submit", "pre_present", "take", "present"}

\* The render call in progress has chosen its frame index and image.
FrameSteps == {"wrap", "draw", "submit", "pre_present", "take", "present"}

DrawCount(t) == Cardinality({k \in 1..Len(t) : t[k] = "draw"})

\* Every image of the container has extent `size` and the fixed format.
AllImagesAre(imgs, size) ==
    \A k \in 1..Len(imgs) :
        imgs[k].dim = size /\ imgs[k].format = Format_B8G8R8A8_UNORM

\* The two containers hold the N images of one recreation and their views.
Paired(imgs, views) ==
    /\ Len(imgs) = FRAMES_IN_FLIGHT
    /\ Len(views) = FRAMES_IN_FLIGHT
    /\ \A k \in 1..FRAMES_IN_FLIGHT :
          /\ views[k].image = imgs[k].id
          /\ imgs[k].id = <<imgs[1].id[1], k>>
          /\ imgs[k].dim = imgs[1].dim

\* C1: while every render call so far has completed its frame and returned Ok,
\* the k-th render call (k = 0, 1, 2, ...) works on frame index k mod
\* FRAMES_IN_FLIGHT.
C1_FrameIndexRoundRobin ==
    (pc \in FrameSteps /\ completed_frames = renders - 1)
        => l_frame_index = (renders - 1) % FRAMES_IN_FLIGHT

\* C2: of the resize notifications that arrive between two render calls only
\* the last is pending and consumed, and the render that consumes it replaces
\* the active set once, by FRAMES_IN_FLIGHT images of that last size.
C2_ResizeCoalescing ==
    /\ (pc = "idle" /\ notify_count >= 1) => resize_event = last_notified
    /\ (pc \notin {"idle", "panicked"} /\ notify_count >= 1)
          => l_resize = last_notified
    /\ (pc \in ProtocolSteps /\ notify_count >= 1)
          => /\ Len(images) = FRAMES_IN_FLIGHT
             /\ AllImagesAre(images, last_notified[1])
             /\ \A k \in 1..FRAMES_IN_FLIGHT : images[k].id = <<renders, k>>

C2_Witness ==
    /\ pc = "draw"
    /\ notify_count = 2
    /\ images[1].dim = last_notified[1]
    /\ images[1].id[1] = renders

\* C3: outside the replacement itself, every image of the active set has the
\* size of the last resize that a render consumed and recreated successfully
\* (at first the construction size) and the format B8G8R8A8_UNORM; so it stays
\* through the render calls that find no pending resize.
C3_ActiveSetHasConsumedSize ==
    pc # "recreated"
        => /\ Len(images) = FRAMES_IN_FLIGHT
           /\ AllImagesAre(images, consumed)

C3_Witness ==
    /\ renders = 3
    /\ pc = "draw"
    /\ l_resize = None
    /\ images[1].id[1] = 1
    /\ AllImagesAre(images, consumed)

\* C4: on a surface on which render was never called, the frame-index accessor,
\* called directly or through current_raw_offscreen_vulkan_image_handle,
\* panics and returns no index.
C4_AccessorBeforeRenderPanics ==
    (renders = 0 /\ access_result.kind # "none")
        => /\ access_result.kind \in {"panic", "panic_handle"}
           /\ pc = "panicked"
           /\ panic_msg = MsgFrameIndex

C4_Witness ==
    /\ renders = 0
    /\ access_result.kind = "panic"
    /\ pc = "panicked"

\* C5: a render call whose acquire is out of date returns Ok with the
\* recreate flag set, and the next render call consumes the flag: when that
\* call queues its present after an acquire that was not suboptimal, the flag
\* is clear.
C5_OutOfDateFlagConsumed ==
    /\ (pc = "idle" /\ outcome = "acquire_out_of_date") => recreate_swapchain
    /\ (pc = "present" /\ outcome = "acquire_out_of_date" /\ ~suboptimal)
          => ~recreate_swapchain

\* C6 as stated: every render call that has returned invoked the draw callback
\* exactly once.
C6_DrawOncePerCall ==
    (pc = "idle" /\ outcome # "none") => DrawCount(trace) = 1

\* C6 amended: the draw callback is invoked at most once per render call, and
\* exactly once in the calls that reach the draw step (they end at the present,
\* whatever its result); a call that returns before it never invokes it.
C6_DrawOncePerDrawnFrame ==
    /\ DrawCount(trace) <= 1
    /\ (pc \in {"submit", "pre_present", "take", "present"}) => DrawCount(trace) = 1
    /\ (pc = "idle" /\ outcome # "none")
          => DrawCount(trace) =
                IF outcome \in {"present_ok", "present_out_of_date", "present_err"}
                THEN 1 ELSE 0

C6_Witness ==
    /\ pc = "idle"
    /\ outcome = "present_err"
    /\ result = "Err"
    /\ DrawCount(trace) = 1

\* C7: both containers always hold FRAMES_IN_FLIGHT entries, and except between
\* the two assignments of the replacement they hold the images of one
\* recreation and the views of exactly these images: no step of render runs
\* on a new set of one and an old set of the other.
C7_ContainersReplacedTogether ==
    /\ Len(images) = FRAMES_IN_FLIGHT
    /\ Len(image_views) = FRAMES_IN_FLIGHT
    /\ pc # "swap_views" => Paired(images, image_views)

C7_Witness ==
    /\ pc = "draw"
    /\ renders = 2
    /\ images[1].id[1] = 2
    /\ Paired(images, image_views)

\* C8: when recreate_size_dependent_resources has returned, the output
\* containers hold FRAMES_IN_FLIGHT new pairs on success and nothing created by
\* the call on an error.
C8_RecreateAllOrNothing ==
    pc = "recreated"
        => IF recreate_ok
           THEN Paired(new_images, new_image_views)
           ELSE new_images = <<>> /\ new_image_views = <<>>

\* C10: a present that fails with an error other than out-of-date makes
\* render return Err with the slot refilled by sync::now and the recreate flag
\* as it was, and the render call after it does not panic.
C10_PresentErrorStep ==
    (pc = "present" /\ pc' = "idle" /\ outcome' = "present_err")
        => /\ result' = "Err"
           /\ previous_frame_end' = "now"
           /\ recreate_swapchain' = recreate_swapchain

C10_AfterPresentError ==
    /\ (pc = "idle" /\ outcome = "present_err") => previous_frame_end = "now"
    /\ (pc = "take" /\ outcome = "present_err") => previous_frame_end # NoFuture
    /\ (pc = "panicked" /\ outcome = "present_err") => panic_msg = MsgFrameIndex

\* C10: the step and the state parts together.
C10_PresentErrorKeepsSurfaceUsable ==
    [][C10_PresentErrorStep]_vars /\ []C10_AfterPresentError

C10_Witness ==
    /\ outcome = "present_err"
    /\ pc = "present"
    /\ renders >= 2
    /\ DrawCount(trace) = 1

PresentOutcomes == {"present_ok", "present_out_of_date", "present_err"}
EarlyOutcomes == {"recreate_err", "acquire_out_of_date", "acquire_err", "wrap_err"}

\* C11: a render call whose present reports out-of-date has returned Ok with
\* the recreate flag set and sync::now stored as the previous-frame future.
C11_PresentOutOfDate ==
    (pc = "idle" /\ outcome = "present_out_of_date")
        => /\ result = "Ok"
           /\ recreate_swapchain
           /\ previous_frame_end = "now"

C11_Witness ==
    /\ pc = "idle"
    /\ outcome = "present_out_of_date"
    /\ notify_count = 0
    /\ result = "Ok"
    /\ recreate_swapchain
    /\ previous_frame_end = "now"

\* C12 as stated: a render call whose acquire was suboptimal ends only by
\* queuing the present of the acquired image, after the draw callback and the
\* submit, with the recreate flag set.
C12_SuboptimalStep ==
    (suboptimal /\ pc # "panicked" /\ pc' \in {"idle", "panicked"})
        => /\ pc = "present"
           /\ recreate_swapchain
           /\ present_info = Some(image_index)
           /\ trace' \in {<<"draw", "submit", "present">>,
                          <<"draw", "submit", "pre_present", "present">>}

C12_SuboptimalCompletesFrame == [][C12_SuboptimalStep]_vars

\* C12 amended: a suboptimal acquire sets the recreate flag and the call goes
\* on as after any successful acquire: it ends before the present only when
\* wrapping the image fails (Err, nothing drawn) or the previous-frame slot is
\* empty (panic at the unwrap); otherwise the callback has been invoked, the
\* GPU work submitted and the present of the acquired index queued.
C12_SuboptimalState ==
    /\ suboptimal => (recreate_swapchain /\ pc \in FrameSteps \cup {"panicked"})
    /\ (suboptimal /\ pc = "present")
          => /\ SubSeq(trace, 1, 2) = <<"draw", "submit">>
             /\ present_info = Some(image_index)
    /\ (suboptimal /\ pc = "panicked") => panic_msg = MsgUnwrapNone

C12_SuboptimalAmendedStep ==
    (suboptimal /\ pc' = "idle")
        => \/ pc = "wrap" /\ outcome' = "wrap_err" /\ trace' = <<>>
           \/ /\ pc = "present"
              /\ outcome' \in PresentOutcomes
              /\ trace' \in {<<"draw", "submit", "present">>,
                             <<"draw", "submit", "pre_present", "present">>}

\* C12: the amended claim, state and step parts together.
C12_SuboptimalProceeds ==
    []C12_SuboptimalState /\ [][C12_SuboptimalAmendedStep]_vars

C12_Witness ==
    /\ pc = "present"
    /\ suboptimal
    /\ recreate_swapchain
    /\ image_index = 1
    /\ present_info = Some(1)
    /\ trace = <<"draw", "submit">>

IsPrefix(t, full) == Len(t) <= Len(full) /\ t = SubSeq(full, 1, Len(t))

\* C13: within a render call the events are the draw callback, the submit, the
\* pre-present callback (once, exactly when one is registered) and the
\* present, in this order; a call that returns before the submit invokes none.
C13_EventOrder ==
    LET with == <<"draw", "submit", "pre_present", "present">>
        without == <<"draw", "submit", "present">>
    IN  /\ IsPrefix(trace, with) \/ IsPrefix(trace, without)
        /\ pc \in {"recreate", "recreated", "swap_views", "acquire", "wrap", "draw"}
              => trace = <<>>
        /\ pc = "submit" => trace = <<"draw">>
        /\ pc = "pre_present" => trace = <<"draw", "submit">>
        /\ pc \in {"take", "present"}
              => trace = IF l_pre_present THEN <<"draw", "submit", "pre_present">>
                         ELSE <<"draw", "submit">>
        /\ (pc = "idle" /\ outcome \in EarlyOutcomes) => trace = <<>>
        /\ (pc = "idle" /\ outcome \in PresentOutcomes) => trace \in {with, without}

C13_Witness ==
    /\ pc = "idle"
    /\ outcome = "present_ok"
    /\ trace = <<"draw", "submit", "pre_present", "present">>

\* C14: a resize notification returns Ok and changes only the pending resize:
\* the images, the views, the frame index, the recreate flag and the
\* previous-frame future are as before, so between render calls the active
\* set keeps the size it had.
C14_ResizeStep ==
    (pc = "idle" /\ notify_count' = notify_count + 1)
        => /\ pc' = "idle"
           /\ result' = "Ok"
           /\ resize_event' = last_notified'
           /\ images' = images
           /\ image_views' = image_views
           /\ frame_index' = frame_index
           /\ recreate_swapchain' = recreate_swapchain
           /\ previous_frame_end' = previous_frame_end

C14_PendingOnly ==
    (pc = "idle" /\ notify_count >= 1)
        => /\ result = "Ok"
           /\ resize_event = last_notified
           /\ AllImagesAre(images, consumed)

\* C14: the step and the state parts together.
C14_ResizeOnlySetsPending ==
    [][C14_ResizeStep]_vars /\ []C14_PendingOnly

C14_Witness ==
    /\ pc = "idle"
    /\ renders >= 1
    /\ notify_count >= 1
    /\ result = "Ok"
    /\ resize_event # Some(images[1].dim)
    /\ ~recreate_swapchain

\* C18: once a render call has completed its frame, the frame-index accessor
\* (directly or through the image-handle accessor) does not panic and returns
\* an index in 0..FRAMES_IN_FLIGHT-1.
C18_AccessorAfterRender ==
    (completed_frames >= 1 /\ access_result.kind # "none")
        => /\ access_result.kind \in {"index", "handle"}
           /\ access_result.value \in 0..(FRAMES_IN_FLIGHT - 1)
           /\ pc # "panicked"

\* C19: in a render call that has reached the present, the image wrapped as
\* the render target and drawn into is the one at the index returned by the
\* acquire of this call, which is the index handed to the present.
C19_DrawnIsPresented ==
    pc = "present"
        => /\ present_info = Some(image_index)
           /\ render_target # None
           /\ render_target[1][2] = image_index + 1

\* C20: on a surface constructed with the previous-frame slot filled, the slot
\* is empty exactly between the take and the present result of one render
\* call, so it is filled at the entry of every render call and the unwrap
\* never panics.
C20_SlotFilledAtEntry ==
    constructed_filled
        => /\ (previous_frame_end = NoFuture) <=> (pc = "present")
           /\ panic_msg # MsgUnwrapNone

C20_Witness ==
    /\ constructed_filled
    /\ renders = 3
    /\ pc = "take"
    /\ previous_frame_end = "frame"

\* The devices of the enumeration that have a graphics-capable queue family.
GraphicsDevices ==
    {d \in 1..Len(devices) :
        \E q \in 1..Len(devices[d].queue_families) : devices[d].queue_families[q]}

\* The class ranks as the claim gives them.
ClassRank ==
    [t \in DeviceTypes |->
        CASE t = "DiscreteGpu" -> 0
          [] t = "IntegratedGpu" -> 1
          [] t = "VirtualGpu" -> 2
          [] t = "Cpu" -> 3
          [] t = "Other" -> 4
          [] OTHER -> 5]

\* C15: the selection fails exactly when no device has a graphics-capable
\* queue family; otherwise it returns such a device of least class rank
\* (so a discrete one if there is any) with the index of the first graphics
\* family of that device.
C15_DeviceSelection ==
    selected.kind # "pending"
        => /\ (selected.kind = "Err") <=> (GraphicsDevices = {})
           /\ selected.kind = "Ok"
                => /\ selected.device \in GraphicsDevices
                   /\ \A d \in GraphicsDevices :
                         ClassRank[devices[selected.device].device_type]
                            <= ClassRank[devices[d].device_type]
                   /\ LET qf == devices[selected.device].queue_families
                          q == selected.queue_family_index + 1
                      IN  /\ q \in 1..Len(qf)
                          /\ qf[q]
                          /\ \A j \in 1..(q - 1) : ~qf[j]
                   /\ (\E d \in GraphicsDevices : devices[d].device_type = "DiscreteGpu")
                         => devices[selected.device].device_type = "DiscreteGpu"

C15_Witness ==
    /\ selected.kind = "Ok"
    /\ Len(devices) = 2
    /\ devices[1].device_type = "IntegratedGpu"
    /\ devices[1].queue_families = <<TRUE>>
    /\ devices[2].device_type = "DiscreteGpu"
    /\ devices[2].queue_families = <<FALSE, TRUE>>
    /\ selected.device = 2
    /\ selected.queue_family_index = 1

\* An emit call made by the owner of the signal, no handler running.
C16_EmitStep ==
    (sig_stack = <<>> /\ sig_emits' = sig_emits + 1)
        => IF sig_last_set = None
           THEN /\ sig_log' = sig_log
                /\ sig_stack' = <<>>
                /\ sig_handler' = None
           ELSE /\ sig_log' = Append(sig_log, <<sig_last_set[1], sig_last_emit'[1]>>)
                /\ Len(sig_stack') = 1

\* Handlers are invoked by emit only, and the outermost emit returns with
\* its handler put back.
C16_OtherSteps ==
    /\ sig_log' # sig_log => sig_emits' = sig_emits + 1
    /\ (Len(sig_stack) = 1 /\ sig_stack' = <<>>)
          => sig_handler' = Some(sig_stack[1].h)

\* Between calls the installed handler is the one of the latest set_handler.
C16_Installed ==
    (sig_stack = <<>> /\ ~sig_panic) => sig_handler = sig_last_set

\* C16: after set_handler(f) every emit(a) invokes f exactly once with a and
\* leaves f installed; emit without a handler does nothing; after a second
\* set_handler(g) only g is invoked.
C16_EmitInvokesInstalledHandler ==
    []C16_Installed /\ [][C16_EmitStep /\ C16_OtherSteps]_vars

C16_Witness ==
    /\ sig_log = <<<<1, 1>>, <<1, 2>>, <<2, 1>>>>
    /\ sig_stack = <<>>
    /\ sig_handler = Some(2)
    /\ ~sig_panic

\* The innermost handler returns to its emit, which asserts.
C17_ReturnStep ==
    (/\ sig_stack # <<>>
     /\ ~sig_panic
     /\ sig_panic' \/ Len(sig_stack') < Len(sig_stack))
        => (sig_panic' <=> sig_stack[Len(sig_stack)].set_called)

\* An emit made by a running handler that has not called set_handler.
C17_NestedEmitStep ==
    (/\ sig_stack # <<>>
     /\ sig_emits' = sig_emits + 1
     /\ ~sig_stack[Len(sig_stack)].set_called)
        => /\ sig_handler = None
           /\ sig_log' = sig_log
           /\ sig_stack' = sig_stack
           /\ UNCHANGED <<sig_handler, sig_panic>>

\* C17: emit fails its assertion when its handler returns if and only if the
\* handler called set_handler on the signal while it ran; an emit made by a
\* running handler finds no handler and invokes nothing.
C17_AssertionIffSetDuringEmit ==
    [][C17_ReturnStep /\ C17_NestedEmitStep]_vars

C17_Witness ==
    /\ sig_panic
    /\ sig_stack # <<>>
    /\ sig_stack[Len(sig_stack)].set_called
    /\ sig_emits >= 2

\* The steps of a render call up to a failed recreation: taking the resize,
\* calling recreate_size_dependent_resources, returning its error.
C21_FailingCallStep ==
    /\ (pc = "idle" /\ pc' = "recreate")
          => /\ resize_event' = None
             /\ l_resize' = resize_event
             /\ images' = images /\ image_views' = image_views
    /\ pc = "recreate"
          => /\ pc' = "recreated"
             /\ resize_event' = None
             /\ images' = images /\ image_views' = image_views
             /\ trace' = <<>>
    /\ (pc = "recreated" /\ ~recreate_ok)
          => /\ pc' = "idle"
             /\ result' = "Err"
             /\ outcome' = "recreate_err"
             /\ resize_event' = None
             /\ images' = images /\ image_views' = image_views
             /\ consumed' = consumed
             /\ trace' = <<>>

\* After a failed recreation the active set changes only in a call that
\* took a new resize notification.
C21_OldSetKept ==
    (outcome = "recreate_err" /\ l_resize = None)
        => images' = images /\ image_views' = image_views

\* C21: a render call whose recreation fails returns Err before acquiring or
\* drawing, with the active images and views as they were before the call
\* and the pending-resize slot empty; later calls use that set until a new
\* resize notification arrives.
C21_RecreateFailureDropsResize ==
    [][C21_FailingCallStep /\ C21_OldSetKept]_vars

C21_Witness ==
    /\ outcome = "recreate_err"
    /\ pc = "draw"
    /\ l_resize = None
    /\ resize_event = None
    /\ AllImagesAre(images, consumed)

==========================================================================
